---- MODULE Spec2Model ----
(***************************************************************************)
(* Similar Jira ticket finder: the fetchIssues resolver of src/src/index.js *)
(* (TF-IDF + remote semantic similarity, merge, metadata boost, cap, sort,  *)
(* top 10) as a state machine.                                              *)
(*                                                                          *)
(* Numbers.  JavaScript numbers are modelled in fixed point: a score x is   *)
(* the integer x * 10^6 ("micro"), a configured weight w is the integer     *)
(* w * 100 ("cents").  Provider scores and weights are multiples of 0.01,   *)
(* so every product  score * weight  of the semantic, merge and boost path  *)
(* is exact.  NaN is a value of its own with JavaScript's rules (it         *)
(* absorbs + and *, every comparison with it is false, x || 0 turns it      *)
(* into 0).  A weight missing from the configuration is undefined, which    *)
(* every use in index.js converts to NaN.                                   *)
(***************************************************************************)
EXTENDS Integers, Sequences, FiniteSets, TLC

(***************************************************************************)
(* Bounds of the model.                                                     *)
(***************************************************************************)
MaxSmallTotal == 3
MaxCorpusPattern == 3
MaxRespPattern == 9
MaxIssueChanges == 3

(***************************************************************************)
(* Program constants.                                                       *)
(***************************************************************************)
PAGE_SIZE == 50
TOP_N == 10

CENT == 100 * 100
ONE == 100 * CENT
NaN == 0 - (2000 * ONE)
Missing == NaN - 1

IsNaN(x) == x = NaN

\* JavaScript  a + b
Add(a, b) == IF IsNaN(a) \/ IsNaN(b) THEN NaN ELSE a + b

\* JavaScript  score * WEIGHT : score in micro, weight in cents
Mul(x, w) == IF IsNaN(x) \/ IsNaN(w) THEN NaN ELSE (x * w) \div 100

\* A configured weight used as an addend or a bound of a score
ToScore(w) == IF IsNaN(w) THEN NaN ELSE w * CENT

\* JavaScript  a >= b
GreaterEq(a, b) == ~IsNaN(a) /\ ~IsNaN(b) /\ a >= b

\* JavaScript  Math.min(a, b)
MathMin(a, b) == IF IsNaN(a) \/ IsNaN(b) THEN NaN ELSE IF a <= b THEN a ELSE b

\* JavaScript  Math.round(score * 100) / 100 : halves round towards +Infinity
RoundCents(x) == IF IsNaN(x) THEN NaN ELSE ((x + (CENT \div 2)) \div CENT) * CENT

\* JavaScript  x || 0  on a looked-up score: undefined, NaN and 0 give 0
OrZero(x) == IF x = Missing \/ IsNaN(x) THEN 0 ELSE x

Range(s) == {s[i] : i \in 1..Len(s)}

\* The same sequence / function, with every element evaluated once
Elements(s) == s \o << >>

Entries(f) == f @@ << >>

RECURSIVE SumOver(_, _)
SumOver(f, S) ==
  IF S = {} THEN 0
  ELSE LET x == CHOOSE y \in S : TRUE IN f[x] + SumOver(f, S \ {x})

MaxOf(S) == CHOOSE x \in S : \A y \in S : y <= x

(***************************************************************************)
(* Configuration: src/src/config.js.  The file assigns module.exports       *)
(* twice; the second object is the one index.js imports.                    *)
(***************************************************************************)
WeightNames ==
  {"summary-weightage", "description-weightage", "similarity-threshold",
   "semantic_weight", "tf_idf_weight", "semantic_threshold", "max_boost",
   "boost_issuetype_match", "boost_labels_overlap", "boost_components_overlap"}

DefaultConfig ==
  [n \in WeightNames |->
     CASE n = "summary-weightage" -> 80
       [] n = "description-weightage" -> 20
       [] n = "similarity-threshold" -> 50
       [] n = "semantic_weight" -> 80
       [] n = "tf_idf_weight" -> 20
       [] n = "semantic_threshold" -> 60
       [] n = "max_boost" -> 10
       [] n = "boost_issuetype_match" -> 5
       [] n = "boost_labels_overlap" -> 2
       [] n = "boost_components_overlap" -> 2]

\* A second configuration inside [0,1]: the weights do not sum to 1.
HeavyConfig ==
  [DefaultConfig EXCEPT !["semantic_weight"] = 100, !["tf_idf_weight"] = 100,
                        !["summary-weightage"] = 100, !["max_boost"] = 100,
                        !["boost_labels_overlap"] = 30]

\* weights['name'] : undefined (NaN in every use) when the key is absent
\* (config is a module.exports object with the key possibly absent)
ReadWeight(cfg, name) == IF name \in DOMAIN cfg THEN cfg[name] ELSE NaN

InUnitRange(cfg) ==
  \A n \in WeightNames : n \in DOMAIN cfg /\ cfg[n] >= 0 /\ cfg[n] <= 100

(***************************************************************************)
(* Text preprocessing.  A text is the sequence of its lower-cased words     *)
(* (the pieces  text.toLowerCase().split(/\W+/)  yields); the empty text    *)
(* is << >>.                                                                *)
(***************************************************************************)
STOP_WORDS ==
  {"the", "is", "in", "at", "of", "a", "and", "to", "it", "for",
   "on", "this", "that", "with", "as", "by", "an"}

\* ./normalizationDictionary is not among the sources: the lookup tables are
\* modelled from the specification (section 4.1), one entry standing for each.
normalizationDictionary == [w \in {"signin"} |-> "login"]

phraseMap == << [phrase |-> <<"log", "in">>, replacement |-> <<"login">>] >>

normalizeToken(token) ==
  IF token \in DOMAIN normalizationDictionary
  THEN normalizationDictionary[token] ELSE token

StartsWith(text, phrase) ==
  /\ Len(phrase) <= Len(text)
  /\ SubSeq(text, 1, Len(phrase)) = phrase

RECURSIVE ReplacePhrase(_, _, _)
ReplacePhrase(text, phrase, replacement) ==
  IF text = << >> THEN << >>
  ELSE IF StartsWith(text, phrase)
       THEN replacement \o
            ReplacePhrase(SubSeq(text, Len(phrase) + 1, Len(text)), phrase, replacement)
       ELSE << Head(text) >> \o ReplacePhrase(Tail(text), phrase, replacement)

RECURSIVE ApplyPhrases(_, _)
ApplyPhrases(text, k) ==
  IF k > Len(phraseMap) THEN text
  ELSE ApplyPhrases(ReplacePhrase(text, phraseMap[k].phrase, phraseMap[k].replacement),
                    k + 1)

applyPhraseMap(text) == ApplyPhrases(text, 1)

RECURSIVE MapFilter(_)
MapFilter(words) ==
  IF words = << >> THEN << >>
  ELSE LET t == normalizeToken(Head(words))
       IN (IF t \in STOP_WORDS THEN << >> ELSE << t >>) \o MapFilter(Tail(words))

tokenize(text) == MapFilter(applyPhraseMap(text))

(***************************************************************************)
(* TF-IDF cosine similarity.  Natural logarithms come from a table in units *)
(* of 10^-7 built from  ln k = ln(k-1) + 2 artanh(1/(2k-1)); TF-IDF weights *)
(* are in units of 10^-4 and cosines in micro.                              *)
(***************************************************************************)
TenE7 == 1000 * CENT

RECURSIVE ArtanhSeries(_, _, _)
\* sum over odd n of 1/(n * y^n), in units of 10^-7; p is y^n
ArtanhSeries(y, p, n) ==
  (TenE7 \div (n * p))
  + (IF p > TenE7 \div (y * y) THEN 0 ELSE ArtanhSeries(y, p * y * y, n + 2))

RECURSIVE Ln(_)
\* ln k in units of 10^-7: ln 2 = 2 artanh(1/3), ln k = ln (k/2) + ln 2 for
\* even k and ln k = ln (k-1) + 2 artanh(1/(2k-1)) for odd k
Ln(k) ==
  IF k = 1 THEN 0
  ELSE IF k = 2 THEN 2 * ArtanhSeries(3, 3, 1)
  ELSE IF k % 2 = 0 THEN Ln(k \div 2) + Ln(2)
  ELSE Ln(k - 1) + 2 * ArtanhSeries(2 * k - 1, 2 * k - 1, 1)

MaxDocs == MaxSmallTotal + PAGE_SIZE + 4

LnTable == [k \in 1..MaxDocs |-> Ln(k)]

\* Math.log(totalDocs / docFreq) in units of 10^-4
MathLog(totalDocs, docFreq) == (LnTable[totalDocs] - LnTable[docFreq]) \div 1000

RECURSIVE SqrtSearch(_, _, _)
SqrtSearch(x, lo, hi) ==
  IF lo >= hi THEN lo
  ELSE LET mid == (lo + hi + 1) \div 2
       IN IF mid * mid <= x THEN SqrtSearch(x, mid, hi) ELSE SqrtSearch(x, lo, mid - 1)

\* floor of the square root
MathSqrt(x) == SqrtSearch(x, 0, IF x < 40000 THEN x ELSE 40000)

Count(tokens, t) == Cardinality({i \in 1..Len(tokens) : tokens[i] = t})

\* computeDocumentFrequencies iterating tokens instead of new Set(tokens): a
\* token counts once per occurrence
computeDocumentFrequenciesPerOccurrence(documents) ==
  LET vocab == UNION {Range(documents[i]) : i \in 1..Len(documents)}
  IN [t \in vocab |->
        Cardinality({p \in UNION {{<< i, j >> : j \in 1..Len(documents[i])} :
                                    i \in 1..Len(documents)} :
                       documents[p[1]][p[2]] = t})]

\* df[token]: the number of documents containing the token at least once
computeDocumentFrequencies(documents) ==
  LET vocab == UNION {Range(documents[i]) : i \in 1..Len(documents)}
  IN [t \in vocab |-> Cardinality({i \in 1..Len(documents) : t \in Range(documents[i])})]

\* df[t] || 1
DfOrOne(df, t) == IF t \in DOMAIN df /\ df[t] # 0 THEN df[t] ELSE 1

computeTfIdf(tokens, df, totalDocs) ==
  [t \in Range(tokens) |->
     (Count(tokens, t) * MathLog(totalDocs, DfOrOne(df, t))) \div Len(tokens)]

\* tf[term] || 0
WeightOrZero(tf, term) == IF term \in DOMAIN tf THEN tf[term] ELSE 0

\* cosineSimilarity without the "|| 1" on the divisor: 0 / 0 on a zero magnitude
cosineSimilarityUnguarded(tf1, tf2) ==
  LET terms == DOMAIN tf1 \cup DOMAIN tf2
      max1 == MaxOf({WeightOrZero(tf1, t) : t \in terms} \cup {0})
      max2 == MaxOf({WeightOrZero(tf2, t) : t \in terms} \cup {0})
  IN IF max1 = 0 \/ max2 = 0 THEN NaN
     ELSE LET a == [t \in terms |-> (WeightOrZero(tf1, t) * CENT) \div max1]
              b == [t \in terms |-> (WeightOrZero(tf2, t) * CENT) \div max2]
              dot == SumOver([t \in terms |-> a[t] * b[t]], terms)
              mag1 == SumOver([t \in terms |-> a[t] * a[t]], terms)
              mag2 == SumOver([t \in terms |-> b[t] * b[t]], terms)
              q == (((dot \div MathSqrt(mag1)) * CENT) \div MathSqrt(mag2)) * 100
          IN IF q > ONE THEN ONE ELSE q

\* dot / (Math.sqrt(mag1) * Math.sqrt(mag2) || 1).  A magnitude is 0 exactly
\* when every weight is 0, and then dot is 0 and the divisor is replaced by 1.
\* Otherwise each vector is first scaled by its largest weight (the cosine
\* does not change) so that the sums of squares fit the fixed-point range.
cosineSimilarity(tf1, tf2) ==
  LET terms == DOMAIN tf1 \cup DOMAIN tf2
      max1 == MaxOf({WeightOrZero(tf1, t) : t \in terms} \cup {0})
      max2 == MaxOf({WeightOrZero(tf2, t) : t \in terms} \cup {0})
  IN IF max1 = 0 \/ max2 = 0 THEN 0
     ELSE LET a == [t \in terms |-> (WeightOrZero(tf1, t) * CENT) \div max1]
              b == [t \in terms |-> (WeightOrZero(tf2, t) * CENT) \div max2]
              dot == SumOver([t \in terms |-> a[t] * b[t]], terms)
              mag1 == SumOver([t \in terms |-> a[t] * a[t]], terms)
              mag2 == SumOver([t \in terms |-> b[t] * b[t]], terms)
              q == (((dot \div MathSqrt(mag1)) * CENT) \div MathSqrt(mag2)) * 100
          IN IF q > ONE THEN ONE ELSE q

(***************************************************************************)
(* What Jira and the semantic provider hold.  Issues come from a pool of    *)
(* field profiles; a corpus of T issues repeats the pool from an offset     *)
(* with a stride, the issue at position k having key k.  The issue in       *)
(* context has key 0.                                                       *)
(***************************************************************************)
IssuePool ==
  << [summary |-> <<"login", "fails", "on", "mobile">>,
      description |-> <<"user", "cannot", "log", "in">>,
      issuetype |-> "bug",
      labels |-> <<"auth", "mobile">>,
      components |-> <<"ui", "api">>],
     [summary |-> <<"login", "fails", "on", "mobile", "app">>,
      description |-> << >>,
      issuetype |-> "bug",
      labels |-> <<"auth", "auth", "mobile">>,
      components |-> <<"ui", "ui">>],
     [summary |-> <<"payment", "page", "crash">>,
      description |-> <<"crash", "on", "payment", "crash">>,
      issuetype |-> "task",
      labels |-> << >>,
      components |-> <<"api">>],
     [summary |-> <<"the", "signin">>,
      description |-> <<"the">>,
      issuetype |-> "undefined",
      labels |-> <<"perf">>,
      components |-> << >>] >>

Invocations == {1, 2}

QueryChoices == {1, 4}

SmallTotals == 0..MaxSmallTotal

\* corpora around the top-10 cut and the 50-issue page
PagedTotals == {0, TOP_N, TOP_N + 1, PAGE_SIZE, PAGE_SIZE + 1}

IssueAt(k, pattern) ==
  LET offset == pattern \div 2
      stride == pattern % 2
      f == IssuePool[((offset + (k - 1) * stride) % Len(IssuePool)) + 1]
  IN [key |-> k, fields |-> f]

JiraCorpus(env) == [k \in 1..env.total |-> IssueAt(k, env.pattern)]

JiraIssue(env) == [key |-> 0, fields |-> IssuePool[env.query]]

Environments ==
  [query : QueryChoices, total : SmallTotals, pattern : 0..MaxCorpusPattern]

PagedEnvironments ==
  [query : {1}, total : PagedTotals, pattern : 0..MaxCorpusPattern]

ConcEnvironments == [query : {1}, total : {1, 2}, pattern : {1, 2}]

\* the search endpoint: the issues of the page that starts at startAt
SearchResponse(env, from) ==
  LET last == IF from + PAGE_SIZE < env.total THEN from + PAGE_SIZE ELSE env.total
  IN [total |-> env.total,
      issues |-> [k \in 1..(IF last > from THEN last - from ELSE 0) |->
                    JiraCorpus(env)[from + k]]]

\* Scores a provider may report for a candidate (in cents), or no entry at all
ScoreChoices == << 90, 60, Missing, 0 - 50, 30 >>

ProviderScore(k, pattern) ==
  LET offset == pattern % Len(ScoreChoices)
      stride == pattern \div Len(ScoreChoices)
      c == ScoreChoices[((offset + (k - 1) * stride) % Len(ScoreChoices)) + 1]
  IN IF c = Missing THEN Missing ELSE c * CENT

\* A provider response: a failure of one kind, or a JSON array of {key, score}
Responses ==
  [kind : {"notok", "throw", "malformed"}, pattern : {0}]
  \cup [kind : {"ok"}, pattern : 0..MaxRespPattern]

FewResponses ==
  {[kind |-> "throw", pattern |-> 0], [kind |-> "ok", pattern |-> 0],
   [kind |-> "ok", pattern |-> Len(ScoreChoices) + 1]}

\* the body of an "ok" response for the candidates sent: the entries present
ResponseBody(resp, candidates) ==
  LET present == {k \in 1..Len(candidates) :
                    ProviderScore(candidates[k].key, resp.pattern) # Missing}
  IN [key \in {candidates[k].key : k \in present} |->
        ProviderScore(key, resp.pattern)]

EmptyMap == << >>

\* map[key] of a JavaScript object: undefined when the key is absent
Lookup(map, key) == IF key \in DOMAIN map THEN map[key] ELSE Missing

(***************************************************************************)
(* The scoring pipeline of index.js.  A scored list is a sequence of        *)
(* [key, score] records in candidate order.                                 *)
(***************************************************************************)
SUMMARY_WEIGHT(cfg) == ReadWeight(cfg, "summary-weightage")
DESCRIPTION_WEIGHT(cfg) == ReadWeight(cfg, "description-weightage")
SEMANTIC_WEIGHT(cfg) == ReadWeight(cfg, "semantic_weight")
TFIDF_WEIGHT(cfg) == ReadWeight(cfg, "tf_idf_weight")
SEMANTIC_THRESHOLD(cfg) == ReadWeight(cfg, "semantic_threshold")
MAX_BOOST(cfg) == ReadWeight(cfg, "max_boost")
BOOST_ISSUETYPE_MATCH(cfg) == ReadWeight(cfg, "boost_issuetype_match")
BOOST_LABELS_OVERLAP(cfg) == ReadWeight(cfg, "boost_labels_overlap")
BOOST_COMPONENTS_OVERLAP(cfg) == ReadWeight(cfg, "boost_components_overlap")

\* { key, summary, description } of an issue Jira returned
TextOf(issue) ==
  [key |-> issue.key, summary |-> issue.fields.summary,
   description |-> issue.fields.description]

\* { key?, issuetype, labels, components } of an issue Jira returned
MetadataOf(issue) ==
  [key |-> issue.key, issuetype |-> issue.fields.issuetype,
   labels |-> issue.fields.labels, components |-> issue.fields.components]

Others(allIssues) == [k \in 1..Len(allIssues) |-> TextOf(allIssues[k])]

OthersMetadata(allIssues) == [k \in 1..Len(allIssues) |-> MetadataOf(allIssues[k])]

\* array.find(e => e.key === key): the first such element's index, 0 if none
FindKey(list, key) ==
  LET hits == {k \in 1..Len(list) : list[k].key = key}
  IN IF hits = {} THEN 0 ELSE CHOOSE k \in hits : \A j \in hits : k <= j

\* const all = [current, ...others]; const totalDocs = all.length
TotalDocs(cur, others) == Len(<< cur >> \o others)

\* the locals of calculateTFIDFCosineSimilarity (index.js 83-102): the token
\* lists, the two document-frequency indices, the TF-IDF vectors (document 1
\* is the issue in context) and each candidate's two cosines
TfIdfLocals(cur, others) ==
  LET docs == << cur >> \o others
      summaries == Elements([k \in 1..Len(docs) |-> tokenize(docs[k].summary)])
      descriptions == Elements([k \in 1..Len(docs) |-> tokenize(docs[k].description)])
      summaryDf == Entries(computeDocumentFrequencies(summaries))
      descDf == Entries(computeDocumentFrequencies(descriptions))
      docCount == TotalDocs(cur, others)
      tfidfSummaries ==
        Elements([k \in 1..Len(docs) |-> Entries(computeTfIdf(summaries[k], summaryDf, docCount))])
      tfidfDescriptions ==
        Elements([k \in 1..Len(docs) |-> Entries(computeTfIdf(descriptions[k], descDf, docCount))])
  IN [summaries |-> summaries,
      descriptions |-> descriptions,
      summaryDf |-> summaryDf,
      descDf |-> descDf,
      totalDocs |-> docCount,
      tfidfSummaries |-> tfidfSummaries,
      tfidfDescriptions |-> tfidfDescriptions,
      summaryScore |->
        Elements([k \in 1..Len(others) |->
                    cosineSimilarity(tfidfSummaries[1], tfidfSummaries[k + 1])]),
      descScore |->
        Elements([k \in 1..Len(others) |->
                    cosineSimilarity(tfidfDescriptions[1], tfidfDescriptions[k + 1])])]

\* const score = summaryScore * SUMMARY_WEIGHT + descScore * DESCRIPTION_WEIGHT
WeightedCosines(cfg, others, locals) ==
  [k \in 1..Len(others) |->
     [key |-> others[k].key,
      score |-> Add(Mul(locals.summaryScore[k], SUMMARY_WEIGHT(cfg)),
                    Mul(locals.descScore[k], DESCRIPTION_WEIGHT(cfg)))]]

calculateTFIDFCosineSimilarity(cfg, cur, others) ==
  WeightedCosines(cfg, others, TfIdfLocals(cur, others))

\* fetchSemanticSimilarity: the mapping key -> score, empty on every failure
fetchSemanticSimilarity(resp, candidates) ==
  IF resp.kind = "ok" THEN ResponseBody(resp, candidates) ELSE EmptyMap

\* SemanticScored where a candidate absent from either mapping scores 0
\* altogether, the other field's score being dropped with it
SemanticScoredAllOrNothing(cfg, others, sumScores, descScores) ==
  [k \in 1..Len(others) |->
     LET summaryScore == Lookup(sumScores, others[k].key)
         descScore == Lookup(descScores, others[k].key)
     IN [key |-> others[k].key,
         score |-> IF summaryScore = Missing \/ descScore = Missing THEN 0
                   ELSE Add(Mul(OrZero(summaryScore), SUMMARY_WEIGHT(cfg)),
                            Mul(OrZero(descScore), DESCRIPTION_WEIGHT(cfg)))]]

\* the synchronous tail of calculateSemanticSimilarity
SemanticScored(cfg, others, sumScores, descScores) ==
  [k \in 1..Len(others) |->
     LET summaryScore == OrZero(Lookup(sumScores, others[k].key))
         descScore == OrZero(Lookup(descScores, others[k].key))
     IN [key |-> others[k].key,
         score |-> Add(Mul(summaryScore, SUMMARY_WEIGHT(cfg)),
                       Mul(descScore, DESCRIPTION_WEIGHT(cfg)))]]

\* MergeOne with an exclusive threshold comparison
MergeOneStrict(cfg, semanticScore, tfidfScore) ==
  IF GreaterEq(semanticScore, ToScore(SEMANTIC_THRESHOLD(cfg)))
     /\ semanticScore # ToScore(SEMANTIC_THRESHOLD(cfg))
  THEN semanticScore
  ELSE Add(Mul(semanticScore, SEMANTIC_WEIGHT(cfg)), Mul(tfidfScore, TFIDF_WEIGHT(cfg)))

\* MergeOne without the threshold shortcut: always the weighted blend
MergeOneAlwaysBlend(cfg, semanticScore, tfidfScore) ==
  Add(Mul(semanticScore, SEMANTIC_WEIGHT(cfg)), Mul(tfidfScore, TFIDF_WEIGHT(cfg)))

MergeOne(cfg, semanticScore, tfidfScore) ==
  IF GreaterEq(semanticScore, ToScore(SEMANTIC_THRESHOLD(cfg)))
  THEN semanticScore
  ELSE Add(Mul(semanticScore, SEMANTIC_WEIGHT(cfg)), Mul(tfidfScore, TFIDF_WEIGHT(cfg)))

mergeSimilarityScores(cfg, semScored, lexScored) ==
  [k \in 1..Len(semScored) |->
     LET found == FindKey(lexScored, semScored[k].key)
         tfidfScore == IF found = 0 THEN 0 ELSE OrZero(lexScored[found].score)
     IN [key |-> semScored[k].key,
         score |-> MergeOne(cfg, semScored[k].score, tfidfScore)]]

\* boost += WEIGHT, once per element of the set
AddTimes(boost, w, n) ==
  IF n = 0 THEN boost
  ELSE IF IsNaN(w) THEN NaN ELSE Add(boost, ToScore(w) * n)

\* the number of positions of list whose value is in set
Occurrences(list, set) == Cardinality({k \in 1..Len(list) : list[k] \in set})

\* BoostOf iterating the candidate's arrays instead of the Sets: a repeated
\* label or component adds once per occurrence
BoostOfPerOccurrence(cfg, currentMetadata, issueMeta) ==
  LET typeBoost == IF issueMeta.issuetype = currentMetadata.issuetype
                   THEN Add(0, ToScore(BOOST_ISSUETYPE_MATCH(cfg))) ELSE 0
      labelBoost == AddTimes(typeBoost, BOOST_LABELS_OVERLAP(cfg),
                             Occurrences(issueMeta.labels, Range(currentMetadata.labels)))
      compBoost == AddTimes(labelBoost, BOOST_COMPONENTS_OVERLAP(cfg),
                            Occurrences(issueMeta.components,
                                        Range(currentMetadata.components)))
  IN MathMin(compBoost, ToScore(MAX_BOOST(cfg)))

BoostOf(cfg, currentMetadata, issueMeta) ==
  LET typeBoost == IF issueMeta.issuetype = currentMetadata.issuetype
                   THEN Add(0, ToScore(BOOST_ISSUETYPE_MATCH(cfg))) ELSE 0
      currentLabels == Range(currentMetadata.labels)
      otherLabels == Range(issueMeta.labels)
      labelBoost == AddTimes(typeBoost, BOOST_LABELS_OVERLAP(cfg),
                             Cardinality(currentLabels \cap otherLabels))
      currentComponents == Range(currentMetadata.components)
      otherComponents == Range(issueMeta.components)
      compBoost == AddTimes(labelBoost, BOOST_COMPONENTS_OVERLAP(cfg),
                            Cardinality(currentComponents \cap otherComponents))
  IN MathMin(compBoost, ToScore(MAX_BOOST(cfg)))

applyBoostingLogic(cfg, currentMetadata, othersMeta, baseScored) ==
  [k \in 1..Len(baseScored) |->
     LET found == FindKey(othersMeta, baseScored[k].key)
     IN IF found = 0 THEN baseScored[k]
        ELSE [key |-> baseScored[k].key,
              score |-> Add(baseScored[k].score,
                            BoostOf(cfg, currentMetadata, othersMeta[found]))]]

\* Math.min(Math.round(score * 100) / 100, 1)
CapScore(score) == MathMin(RoundCents(score), ONE)

SimilarityScored(others, boosted) ==
  [k \in 1..Len(boosted) |->
     LET found == FindKey(others, boosted[k].key)
     IN [key |-> boosted[k].key,
         summary |-> IF found = 0 THEN << >> ELSE others[found].summary,
         description |-> IF found = 0 THEN << >> ELSE others[found].description,
         score |-> CapScore(boosted[k].score)]]

(***************************************************************************)
(* similarityScored.sort((a, b) => b.score - a.score).  Array.prototype.sort *)
(* is stable; a comparator result of NaN counts as 0.  When NaN scores sit  *)
(* among numbers the comparator is not a consistent ordering and the        *)
(* resulting order is implementation-defined: any permutation.              *)
(***************************************************************************)
Compare(a, b) == IF IsNaN(a.score) \/ IsNaN(b.score) THEN 0 ELSE b.score - a.score

ConsistentComparator(list) ==
  \/ \A k \in 1..Len(list) : ~IsNaN(list[k].score)
  \/ \A k \in 1..Len(list) : IsNaN(list[k].score)

\* Before for a sort that reverses equal elements
BeforeUnstable(list, k) ==
  Cardinality({j \in 1..Len(list) :
                 \/ Compare(list[j], list[k]) < 0
                 \/ (Compare(list[j], list[k]) = 0 /\ j > k)})

\* the number of elements a stable sort places before element k
Before(list, k) ==
  Cardinality({j \in 1..Len(list) :
                 \/ Compare(list[j], list[k]) < 0
                 \/ (Compare(list[j], list[k]) = 0 /\ j < k)})

StableSort(list) ==
  LET before == Elements([k \in 1..Len(list) |-> Before(list, k)])
  IN [pos \in 1..Len(list) |->
        list[CHOOSE k \in 1..Len(list) : before[k] = pos - 1]]

SortResults(list) ==
  IF ConsistentComparator(list) THEN {StableSort(list)}
  ELSE {[pos \in 1..Len(list) |-> list[perm[pos]]] :
          perm \in {f \in [1..Len(list) -> 1..Len(list)] :
                      \A x, y \in 1..Len(list) : x # y => f[x] # f[y]}}

\* slice(0, n - 1): one result short
SliceShort(list, n) == SubSeq(list, 1, IF Len(list) < n - 1 THEN Len(list) ELSE n - 1)

\* array.slice(0, n)
Slice(list, n) == SubSeq(list, 1, IF Len(list) < n THEN Len(list) ELSE n)

(***************************************************************************)
(* The TF-IDF-only resolver (unnamed/part_000, lines 1-212): the same       *)
(* retrieval loop, then lexical scoring with its own weighting rule, fixed  *)
(* heuristic boosts and the similarity threshold.                           *)
(***************************************************************************)
SIMILARITY_THRESHOLD(cfg) == ReadWeight(cfg, "similarity-threshold")

NotStopWord(token) == token \notin STOP_WORDS

\* text.toLowerCase().split(/\W+/).filter(token => token && !STOP_WORDS.has(token))
tokenizeWords(text) == SelectSeq(text, NotStopWord)

\* currentIssue / issueObj of the TF-IDF-only resolver
IssueObj(issue) ==
  [key |-> issue.key, summary |-> issue.fields.summary,
   description |-> issue.fields.description, issueType |-> issue.fields.issuetype,
   labels |-> issue.fields.labels, components |-> issue.fields.components]

applyHeuristics(issueA, issueB) ==
  LET typeBoost == IF issueA.issueType = issueB.issueType THEN 10 * CENT ELSE 0
      labelBoost == IF Range(issueA.labels) \cap Range(issueB.labels) # {}
                    THEN 10 * CENT ELSE 0
      compBoost == IF Range(issueA.components) \cap Range(issueB.components) # {}
                   THEN 10 * CENT ELSE 0
  IN typeBoost + labelBoost + compBoost

\* let weightedCosineScore ... (part_000 175-186)
WeightedCosineScore(cfg, summarySimilarity, descSimilarity) ==
  IF descSimilarity = 0 THEN summarySimilarity
  ELSE Add(Mul(summarySimilarity, SUMMARY_WEIGHT(cfg)),
           Mul(descSimilarity, DESCRIPTION_WEIGHT(cfg)))

\* the body of allIssues.map (part_000 131-200), with the intermediate values
ScoredIssues(cfg, currentIssue, allIssues) ==
  LET n == Len(allIssues)
      tokenizedSummaries ==
        Elements([k \in 1..n |-> tokenizeWords(allIssues[k].fields.summary)])
        \o << tokenizeWords(currentIssue.summary) >>
      tokenizedDescriptions ==
        Elements([k \in 1..n |-> tokenizeWords(allIssues[k].fields.description)])
        \o << tokenizeWords(currentIssue.description) >>
      dfSummary == Entries(computeDocumentFrequencies(tokenizedSummaries))
      dfDesc == Entries(computeDocumentFrequencies(tokenizedDescriptions))
      docCount == Len(tokenizedSummaries)
      tfidfSummaryCurrent == Entries(computeTfIdf(tokenizedSummaries[n + 1], dfSummary, docCount))
      tfidfDescCurrent == Entries(computeTfIdf(tokenizedDescriptions[n + 1], dfDesc, docCount))
  IN [k \in 1..n |->
        LET issueObj == IssueObj(allIssues[k])
            tfidfSummaryIssue == Entries(computeTfIdf(tokenizedSummaries[k], dfSummary, docCount))
            tfidfDescIssue == Entries(computeTfIdf(tokenizedDescriptions[k], dfDesc, docCount))
            summarySimilarity == cosineSimilarity(tfidfSummaryCurrent, tfidfSummaryIssue)
            descSimilarity ==
              IF Len(tokenizedDescriptions[n + 1]) > 0 /\ Len(tokenizedDescriptions[k]) > 0
              THEN cosineSimilarity(tfidfDescCurrent, tfidfDescIssue) ELSE 0
            weightedCosineScore == WeightedCosineScore(cfg, summarySimilarity, descSimilarity)
            boost == applyHeuristics(currentIssue, issueObj)
            finalScore ==
              IF GreaterEq(weightedCosineScore, ToScore(SIMILARITY_THRESHOLD(cfg)))
              THEN MathMin(ONE, Add(weightedCosineScore, boost))
              ELSE weightedCosineScore
        IN [issue |-> [key |-> issueObj.key, summary |-> issueObj.summary,
                       description |-> issueObj.description,
                       issueType |-> issueObj.issueType, labels |-> issueObj.labels,
                       components |-> issueObj.components, score |-> finalScore],
            summarySimilarity |-> summarySimilarity,
            descSimilarity |-> descSimilarity,
            weightedCosineScore |-> weightedCosineScore]]

(***************************************************************************)
(* State.  weights is the module-level configuration index.js reads at      *)
(* load; jira is what the tracker holds for each invocation's issue.  The   *)
(* other variables are the locals of each fetchIssues invocation; pc is     *)
(* the await at which the invocation is suspended.                          *)
(***************************************************************************)
VARIABLES weights, jira, pc, issueData, startAt, all, total,
          summaryScores, descriptionScores, semanticScored, tfidfScored,
          mergedScored, boostedScored, similar,
          searches,    \* history: the search requests sent, by startAt
          responses,   \* history: the provider responses received, in order
          totalDocs,   \* history: the size of the corpus the DF index was built over
          tfidfLocals, \* history: the locals of calculateTFIDFCosineSimilarity
          scoredIssues,   \* TF-IDF-only resolver: scoredIssues with their intermediate values
          currentIssue, similarIssues,   \* App.js: the component's state
          calls,       \* App.js: the invoke('fetchIssues') calls, in the order started
          context      \* the revision of the issue in the UI's context

\* the state of the App component and of its calls
uiVars == << currentIssue, similarIssues, calls, context >>

vars == << weights, jira, pc, issueData, startAt, all, total,
           summaryScores, descriptionScores, semanticScored, tfidfScored,
           mergedScored, boostedScored, similar, searches, responses, totalDocs,
           tfidfLocals, scoredIssues, uiVars >>

NoIssue == [key |-> 0 - 1, fields |-> IssuePool[1]]

Current(i) == TextOf(issueData[i])

CurrentMetadata(i) == MetadataOf(issueData[i])

\* PushPage onto an array declared at module level, shared by the invocations
PushPageShared(i, issues) == [j \in Invocations |-> all[j] \o issues]

\* all.push(...sd.issues)
PushPage(i, issues) == [all EXCEPT ![i] = @ \o issues]

\* the loop condition tested against the page just fetched
MorePagesEarlyStop(from, count) == from + PAGE_SIZE < count

\* the loop condition with <=: one more request when total is a whole number
\* of pages
MorePagesInclusive(from, count) == from <= count

\* } while (startAt < total)
MorePages(from, count) == from < count

\* 1. Fetch current issue (index.js 206-222)
FetchCurrent(i) ==
  /\ pc[i] = "start"
  /\ issueData' = [issueData EXCEPT ![i] = JiraIssue(jira[i])]
  /\ startAt' = [startAt EXCEPT ![i] = 0]
  /\ all' = [all EXCEPT ![i] = << >>]
  /\ total' = [total EXCEPT ![i] = 0]
  /\ pc' = [pc EXCEPT ![i] = "search"]
  /\ UNCHANGED << weights, jira, searches, summaryScores, descriptionScores,
                  semanticScored, tfidfScored, mergedScored, boostedScored, similar,
                  responses, totalDocs, tfidfLocals, scoredIssues, uiVars >>

\* 2. One turn of the do-while loop (index.js 223-229)
SearchPage(i) ==
  /\ pc[i] = "search"
  /\ LET sd == SearchResponse(jira[i], startAt[i])
     IN /\ total' = [total EXCEPT ![i] = sd.total]
        /\ all' = PushPage(i, sd.issues)
        /\ startAt' = [startAt EXCEPT ![i] = @ + PAGE_SIZE]
        /\ searches' = [searches EXCEPT ![i] = Append(@, startAt[i])]
        /\ pc' = [pc EXCEPT ![i] =
                    IF MorePages(startAt[i] + PAGE_SIZE, sd.total)
                    THEN "search" ELSE "semSummary"]
  /\ UNCHANGED << weights, jira, issueData, summaryScores, descriptionScores,
                  semanticScored, tfidfScored, mergedScored, boostedScored, similar,
                  responses, totalDocs, tfidfLocals, scoredIssues, uiVars >>

\* calculateSemanticSimilarity, first await (index.js 142)
SemSummary(i, resp) ==
  /\ pc[i] = "semSummary"
  /\ summaryScores' =
       [summaryScores EXCEPT ![i] = fetchSemanticSimilarity(resp, Others(all[i]))]
  /\ responses' = [responses EXCEPT ![i] = Append(@, resp)]
  /\ pc' = [pc EXCEPT ![i] = "semDescription"]
  /\ UNCHANGED << weights, jira, issueData, startAt, all, total, searches,
                  descriptionScores, semanticScored, tfidfScored, mergedScored,
                  boostedScored, similar, totalDocs, tfidfLocals, scoredIssues,
                  uiVars >>

\* calculateSemanticSimilarity, second await and the map (index.js 143-151)
SemDescription(i, resp) ==
  /\ pc[i] = "semDescription"
  /\ LET scores == fetchSemanticSimilarity(resp, Others(all[i]))
     IN /\ descriptionScores' = [descriptionScores EXCEPT ![i] = scores]
        /\ semanticScored' =
             [semanticScored EXCEPT ![i] =
                SemanticScored(weights, Others(all[i]), summaryScores[i], scores)]
  /\ responses' = [responses EXCEPT ![i] = Append(@, resp)]
  /\ pc' = [pc EXCEPT ![i] = "rank"]
  /\ UNCHANGED << weights, jira, issueData, startAt, all, total, searches,
                  summaryScores, tfidfScored, mergedScored, boostedScored, similar,
                  totalDocs, tfidfLocals, scoredIssues, uiVars >>

\* 3.-5. after  await calculateSemanticSimilarity  (index.js 251-278)
Rank(i) ==
  /\ pc[i] = "rank"
  /\ LET others == Elements(Others(all[i]))
         locals == TfIdfLocals(Current(i), others)
         lexical == Elements(WeightedCosines(weights, others, locals))
         merged == Elements(mergeSimilarityScores(weights, semanticScored[i], lexical))
         boosted == Elements(applyBoostingLogic(weights, CurrentMetadata(i),
                                                Elements(OthersMetadata(all[i])), merged))
         scored == Elements(SimilarityScored(others, boosted))
     IN /\ totalDocs' = [totalDocs EXCEPT ![i] = TotalDocs(Current(i), others)]
        /\ tfidfLocals' = [tfidfLocals EXCEPT ![i] = locals]
        /\ tfidfScored' = [tfidfScored EXCEPT ![i] = lexical]
        /\ mergedScored' = [mergedScored EXCEPT ![i] = merged]
        /\ boostedScored' = [boostedScored EXCEPT ![i] = boosted]
        /\ \E sorted \in SortResults(scored) :
             similar' = [similar EXCEPT ![i] = Slice(sorted, TOP_N)]
  /\ pc' = [pc EXCEPT ![i] = "done"]
  /\ UNCHANGED << weights, jira, issueData, startAt, all, total, searches,
                  summaryScores, descriptionScores, semanticScored, responses,
                  scoredIssues, uiVars >>

\* The TF-IDF-only resolver after its retrieval loop (part_000 131-208); the
\* loop itself (part_000 116-129) is the one of SearchPage, which leaves the
\* invocation at the statement that follows it
ScoreIssues(i) ==
  /\ pc[i] = "semSummary"
  /\ LET scored == Elements(ScoredIssues(weights, IssueObj(issueData[i]), all[i]))
         results == Elements([k \in 1..Len(scored) |-> scored[k].issue])
     IN /\ scoredIssues' = [scoredIssues EXCEPT ![i] = scored]
        /\ totalDocs' = [totalDocs EXCEPT ![i] = Len(all[i]) + 1]
        /\ \E sorted \in SortResults(results) :
             similar' = [similar EXCEPT ![i] = Slice(sorted, TOP_N)]
  /\ pc' = [pc EXCEPT ![i] = "done"]
  /\ UNCHANGED << weights, jira, issueData, startAt, all, total, searches,
                  summaryScores, descriptionScores, semanticScored, tfidfScored,
                  mergedScored, boostedScored, responses, tfidfLocals, uiVars >>

(***************************************************************************)
(* The App component (static/hello-world/src/App.js).  A call of           *)
(* invoke('fetchIssues') is sent, served by the resolver for the issue as  *)
(* it is at that moment, and resolved when its response reaches the         *)
(* component; responses arrive in any order.                                *)
(***************************************************************************)
Null == 0 - 1

\* what the resolver returns for the issue at a revision
FetchIssuesResult(revision) ==
  [current |-> revision, similar |-> [k \in 1..revision |-> revision]]

\* const fetchData = async () => { ... await invoke('fetchIssues')
fetchData == Append(calls, [state |-> "sent", result |-> FetchIssuesResult(0)])

UnchangedResolver ==
  UNCHANGED << weights, jira, pc, issueData, startAt, all, total,
               summaryScores, descriptionScores, semanticScored, tfidfScored,
               mergedScored, boostedScored, similar, searches, responses, totalDocs,
               tfidfLocals, scoredIssues >>

\* useEffect on mount: the initial fetchData()
Mount ==
  /\ calls = << >>
  /\ calls' = fetchData
  /\ UNCHANGED << currentIssue, similarIssues, context >>
  /\ UnchangedResolver

\* the issue changes and the JIRA_ISSUE_CHANGED listener calls fetchData()
IssueChanged ==
  /\ calls # << >>
  /\ context < MaxIssueChanges
  /\ context' = context + 1
  /\ calls' = fetchData
  /\ UNCHANGED << currentIssue, similarIssues >>
  /\ UnchangedResolver

\* the resolver runs for a call
InvokeServed(c) ==
  /\ calls[c].state = "sent"
  /\ calls' = [calls EXCEPT ![c] = [state |-> "served",
                                    result |-> FetchIssuesResult(context)]]
  /\ UNCHANGED << currentIssue, similarIssues, context >>
  /\ UnchangedResolver

\* the await of a call completes: setCurrentIssue, setSimilarIssues
InvokeResolved(c) ==
  /\ calls[c].state = "served"
  /\ calls' = [calls EXCEPT ![c].state = "resolved"]
  /\ currentIssue' = calls[c].result.current
  /\ similarIssues' = calls[c].result.similar
  /\ UNCHANGED context
  /\ UnchangedResolver

InitLocals ==
  /\ issueData = [i \in Invocations |-> NoIssue]
  /\ startAt = [i \in Invocations |-> 0]
  /\ all = [i \in Invocations |-> << >>]
  /\ total = [i \in Invocations |-> 0]
  /\ searches = [i \in Invocations |-> << >>]
  /\ responses = [i \in Invocations |-> << >>]
  /\ totalDocs = [i \in Invocations |-> 0]
  /\ summaryScores = [i \in Invocations |-> EmptyMap]
  /\ descriptionScores = [i \in Invocations |-> EmptyMap]
  /\ semanticScored = [i \in Invocations |-> << >>]
  /\ tfidfScored = [i \in Invocations |-> << >>]
  /\ mergedScored = [i \in Invocations |-> << >>]
  /\ boostedScored = [i \in Invocations |-> << >>]
  /\ similar = [i \in Invocations |-> << >>]
  /\ tfidfLocals = [i \in Invocations |-> << >>]
  /\ scoredIssues = [i \in Invocations |-> << >>]
  /\ currentIssue = Null
  /\ similarIssues = << >>
  /\ calls = << >>
  /\ context = 0

IdleEnvironment == [query |-> 1, total |-> 0, pattern |-> 0]

OneInvocation(env) ==
  /\ jira = [i \in Invocations |-> IF i = 1 THEN env ELSE IdleEnvironment]
  /\ pc = [i \in Invocations |-> IF i = 1 THEN "start" ELSE "idle"]
  /\ InitLocals

Step(i, provider) ==
  \/ FetchCurrent(i)
  \/ SearchPage(i)
  \/ \E resp \in provider : SemSummary(i, resp)
  \/ \E resp \in provider : SemDescription(i, resp)
  \/ Rank(i)

\* One invocation on a small corpus, every provider response, weights in [0,1]
Init ==
  /\ weights \in {DefaultConfig, HeavyConfig}
  /\ \E env \in Environments : OneInvocation(env)

Next == \E i \in Invocations : Step(i, Responses)

Spec == Init /\ [][Next]_vars

\* One invocation on corpora around the top-10 cut and the page size
InitPaged ==
  /\ weights = DefaultConfig
  /\ \E env \in PagedEnvironments : OneInvocation(env)

NextPaged == \E i \in Invocations : Step(i, FewResponses)

SpecPaged == InitPaged /\ [][NextPaged]_vars

\* Two invocations interleaved at their awaits
InitConc ==
  /\ weights = DefaultConfig
  /\ jira \in [Invocations -> ConcEnvironments]
  /\ pc = [i \in Invocations |-> "start"]
  /\ InitLocals

SpecConc == InitConc /\ [][NextPaged]_vars

\* One invocation under configurations with a weight missing or out of range
MissingMaxBoost == [n \in WeightNames \ {"max_boost"} |-> DefaultConfig[n]]

MissingSemanticWeight == [n \in WeightNames \ {"semantic_weight"} |-> DefaultConfig[n]]

OutOfRangeWeight == [DefaultConfig EXCEPT !["tf_idf_weight"] = 0 - 300]

InitConfig ==
  /\ weights \in {DefaultConfig, MissingMaxBoost, MissingSemanticWeight, OutOfRangeWeight}
  /\ \E env \in Environments : OneInvocation(env)

SpecConfig == InitConfig /\ [][NextPaged]_vars

\* The TF-IDF-only resolver, one invocation on a small corpus; the issue in
\* context has an issue type
NextTfIdfOnly ==
  \E i \in Invocations : FetchCurrent(i) \/ SearchPage(i) \/ ScoreIssues(i)

InitTfIdfOnly ==
  /\ weights \in {DefaultConfig, HeavyConfig}
  /\ \E env \in {e \in Environments : e.query = 1} : OneInvocation(env)

SpecTfIdfOnly == InitTfIdfOnly /\ [][NextTfIdfOnly]_vars

\* The App component: mount, issue changes, responses in any order
InitApp ==
  /\ weights = DefaultConfig
  /\ jira = [i \in Invocations |-> IdleEnvironment]
  /\ pc = [i \in Invocations |-> "idle"]
  /\ InitLocals

NextApp ==
  \/ Mount
  \/ IssueChanged
  \/ \E c \in 1..Len(calls) : InvokeServed(c)
  \/ \E c \in 1..Len(calls) : InvokeResolved(c)

SpecApp == InitApp /\ [][NextApp]_vars

(***************************************************************************)
(* Properties.                                                              *)
(***************************************************************************)
Done(i) == pc[i] = "done"

Candidates(i) == JiraCorpus(jira[i])

\* What the provider reported for a candidate's field: 0 when the call failed
\* or the response has no entry for the candidate
Reported(resp, key) ==
  IF resp.kind = "ok" /\ ProviderScore(key, resp.pattern) # Missing
  THEN ProviderScore(key, resp.pattern) ELSE 0

Min2(a, b) == IF a <= b THEN a ELSE b

\* C1: with every weight in [0,1], every score of the similar list returned by
\* fetchIssues lies in [0,1], whatever the provider responded.
C1_ScoresInUnitInterval ==
  \A i \in Invocations :
    (Done(i) /\ InUnitRange(weights)) =>
      \A k \in 1..Len(similar[i]) :
        similar[i][k].score >= 0 /\ similar[i][k].score <= ONE

\* C2: a failed provider call yields the empty mapping and is never propagated:
\* each candidate's semantic score is built from what was reported per field,
\* a failed or missing field counting 0 for that field only, and the
\* invocation still returns a ranking over all candidates.
C2_FailureDegradesToZero ==
  \A i \in Invocations :
    /\ Len(responses[i]) >= 1 =>
         (responses[i][1].kind # "ok" => summaryScores[i] = EmptyMap)
    /\ Len(responses[i]) >= 2 =>
         /\ responses[i][2].kind # "ok" => descriptionScores[i] = EmptyMap
         /\ pc[i] \in {"rank", "done"}
         /\ Len(semanticScored[i]) = Len(Candidates(i))
         /\ \A k \in 1..Len(semanticScored[i]) :
              /\ semanticScored[i][k].key = k
              /\ semanticScored[i][k].score * 100 =
                   Reported(responses[i][1], k) * weights["summary-weightage"]
                   + Reported(responses[i][2], k) * weights["description-weightage"]
    /\ Done(i) =>
         /\ Len(similar[i]) = Min2(TOP_N, Len(Candidates(i)))
         /\ \A k \in 1..Len(similar[i]) : similar[i][k].key \in 1..Len(Candidates(i))

C2_Witness ==
  /\ Done(1)
  /\ responses[1][1].kind = "throw"
  /\ responses[1][2].kind = "ok"
  /\ Len(similar[1]) = MaxSmallTotal
  /\ \E k \in 1..Len(semanticScored[1]) :
       /\ Reported(responses[1][2], k) > 0
       /\ semanticScored[1][k].score > 0

\* C3: mergedScore = semanticScore when semanticScore >= SEMANTIC_THRESHOLD
\* (equality included), otherwise semanticScore * SEMANTIC_WEIGHT +
\* lexicalScore * TFIDF_WEIGHT with the weights as configured.
C3_MergeFormula ==
  \A i \in Invocations :
    Done(i) =>
      \A k \in 1..Len(mergedScored[i]) :
        LET sem == semanticScored[i][k].score
            lex == tfidfScored[i][k].score
        IN /\ tfidfScored[i][k].key = semanticScored[i][k].key
           /\ mergedScored[i][k].key = semanticScored[i][k].key
           /\ mergedScored[i][k].score =
                IF sem >= weights["semantic_threshold"] * CENT THEN sem
                ELSE (sem * weights["semantic_weight"]) \div 100
                     + (lex * weights["tf_idf_weight"]) \div 100

C3_Witness ==
  /\ Done(1)
  /\ weights = HeavyConfig
  /\ \E k \in 1..Len(mergedScored[1]) :
       /\ semanticScored[1][k].score = weights["semantic_threshold"] * CENT
       /\ tfidfScored[1][k].score > 0
       /\ mergedScored[1][k].score = semanticScored[1][k].score
  /\ \E k \in 1..Len(mergedScored[1]) :
       /\ semanticScored[1][k].score > 0
       /\ semanticScored[1][k].score < weights["semantic_threshold"] * CENT
       /\ tfidfScored[1][k].score > 0
       /\ mergedScored[1][k].score =
            semanticScored[1][k].score + tfidfScored[1][k].score

\* the number of distinct values two lists have in common
CommonValues(a, b) == Cardinality(Range(a) \cap Range(b))

\* the boost before the cap, in cents
Accumulated(cfg, query, candidate) ==
  (IF query.issuetype = candidate.issuetype THEN cfg["boost_issuetype_match"] ELSE 0)
  + cfg["boost_labels_overlap"] * CommonValues(query.labels, candidate.labels)
  + cfg["boost_components_overlap"] * CommonValues(query.components, candidate.components)

\* C4: the boost added by applyBoostingLogic is min(ISSUETYPE_BOOST * [same
\* issue type] + LABEL_BOOST * #common distinct labels + COMPONENT_BOOST *
\* #common distinct components, MAX_BOOST).
C4_BoostFormula ==
  \A i \in Invocations :
    Done(i) =>
      \A k \in 1..Len(boostedScored[i]) :
        boostedScored[i][k].score - mergedScored[i][k].score =
          CENT * Min2(Accumulated(weights, JiraIssue(jira[i]).fields,
                                  Candidates(i)[k].fields),
                      weights["max_boost"])

C4_Witness ==
  /\ Done(1)
  /\ weights = DefaultConfig
  /\ \E k \in 1..Len(boostedScored[1]) :
       /\ Accumulated(weights, JiraIssue(jira[1]).fields, Candidates(1)[k].fields)
            > weights["max_boost"]
       /\ Len(Candidates(1)[k].fields.labels)
            > Cardinality(Range(Candidates(1)[k].fields.labels))
       /\ boostedScored[1][k].score - mergedScored[1][k].score
            = weights["max_boost"] * CENT

\* C5: the similar list is ordered by score descending, and candidates with
\* equal scores keep the order in which the corpus was retrieved (a
\* candidate's key is its position in the corpus).
C5_SortedStable ==
  \A i \in Invocations :
    Done(i) =>
      \A a, b \in 1..Len(similar[i]) :
        a < b =>
          /\ similar[i][a].score >= similar[i][b].score
          /\ similar[i][a].score = similar[i][b].score =>
               similar[i][a].key < similar[i][b].key

C5_Witness ==
  /\ Done(1)
  /\ \E a, b \in 1..Len(similar[1]) :
       a < b /\ similar[1][a].score = similar[1][b].score
  /\ \E a, b \in 1..Len(similar[1]) :
       a < b /\ similar[1][a].key > similar[1][b].key

\* the score fetchIssues reports for the candidate at position k
OutputScore(i, k) == CapScore(boostedScored[i][k].score)

\* C6: for a corpus of n candidates fetchIssues returns min(10, n) results, no
\* omitted candidate scores strictly higher than an included one, and an empty
\* corpus gives an empty result.
C6_TopTen ==
  \A i \in Invocations :
    Done(i) =>
      LET n == Len(Candidates(i))
          included == {similar[i][k].key : k \in 1..Len(similar[i])}
      IN /\ Len(similar[i]) = Min2(TOP_N, n)
         /\ Cardinality(included) = Len(similar[i])
         /\ included \subseteq 1..n
         /\ \A k \in 1..Len(similar[i]) :
              similar[i][k].score = OutputScore(i, similar[i][k].key)
         /\ \A out \in (1..n) \ included : \A in \in included :
              OutputScore(i, out) <= OutputScore(i, in)
         /\ n = 0 => similar[i] = << >>

C6_Witness ==
  /\ Done(1)
  /\ Len(Candidates(1)) = TOP_N + 1
  /\ Len(similar[1]) = TOP_N
  /\ \E k \in 1..TOP_N : OutputScore(1, k) < OutputScore(1, TOP_N + 1)

C6_WitnessEmpty == Done(1) /\ Len(Candidates(1)) = 0 /\ similar[1] = << >>

\* C7: the document-frequency index is built only once the whole corpus has
\* been retrieved: before the last page there is no lexical scoring, and the
\* index, once built, covers every candidate plus the issue in context.
C7_ScoringAfterRetrieval ==
  \A i \in Invocations :
    /\ pc[i] \in {"start", "search"} => totalDocs[i] = 0 /\ tfidfScored[i] = << >>
    /\ totalDocs[i] # 0 =>
         /\ ~MorePages(startAt[i], total[i])
         /\ all[i] = Candidates(i)
         /\ totalDocs[i] = Len(Candidates(i)) + 1
         /\ Len(tfidfScored[i]) = Len(Candidates(i))

C7_Witness ==
  /\ Done(1)
  /\ searches[1] = << 0, PAGE_SIZE >>
  /\ totalDocs[1] = PAGE_SIZE + 2

\* the result of an invocation run alone on its own inputs
AloneResult(cfg, env, received) ==
  LET corpus == Elements(JiraCorpus(env))
      others == Elements(Others(corpus))
      sumScores == fetchSemanticSimilarity(received[1], others)
      descScores == fetchSemanticSimilarity(received[2], others)
      semantic == Elements(SemanticScored(cfg, others, sumScores, descScores))
      lexical == Elements(calculateTFIDFCosineSimilarity(cfg, TextOf(JiraIssue(env)), others))
      merged == Elements(mergeSimilarityScores(cfg, semantic, lexical))
      boosted == Elements(applyBoostingLogic(cfg, MetadataOf(JiraIssue(env)),
                                             Elements(OthersMetadata(corpus)), merged))
  IN Slice(StableSort(Elements(SimilarityScored(others, boosted))), TOP_N)

\* C8: two interleaved invocations share no mutable state: each returns what
\* it would return alone on its own inputs, and the weights stay as loaded.
C8_Independent ==
  /\ weights = DefaultConfig
  /\ \A i \in Invocations :
       /\ Len(all[i]) <= Len(Candidates(i))
       /\ Done(i) =>
            /\ issueData[i] = JiraIssue(jira[i])
            /\ similar[i] = AloneResult(weights, jira[i], responses[i])

C8_Witness ==
  /\ Done(1) /\ Done(2)
  /\ jira[1] # jira[2]
  /\ responses[1] # responses[2]
  /\ similar[1] # similar[2]
  /\ Len(similar[1]) = 2

ValidConfig(cfg) ==
  \A n \in WeightNames : n \in DOMAIN cfg /\ cfg[n] >= 0 /\ cfg[n] <= 100

\* C9: with a required weight missing or out of range no ranking is produced.
C9_NoRankingOnBadConfig ==
  \A i \in Invocations : ~ValidConfig(weights) => ~Done(i)

\* C10 as stated: a summary score of 0.9 from the provider (threshold 0.6)
\* makes the candidate's mergedScore 0.9.
C10_MergedIsSummaryScore ==
  \A i \in Invocations :
    (Done(i) /\ weights = DefaultConfig) =>
      \A k \in 1..Len(mergedScored[i]) :
        Reported(responses[i][1], k) = 90 * CENT =>
          mergedScored[i][k].score = 90 * CENT

\* C10 amended: with the configured weights (0.8 / 0.2, threshold 0.6) a
\* summary score of 0.9 gives semanticScore = 0.72 + 0.2 * d, d the reported
\* description score (0 when missing); whenever that reaches the threshold
\* mergedScore equals it, whatever the lexical score: 0.72 when the
\* description score is missing, not 0.9.
C10_MergedIsSemanticScore ==
  \A i \in Invocations :
    (Done(i) /\ weights = DefaultConfig) =>
      \A k \in 1..Len(mergedScored[i]) :
        Reported(responses[i][1], k) = 90 * CENT =>
          LET d == Reported(responses[i][2], k)
              sem == 72 * CENT + d \div 5
          IN /\ semanticScored[i][k].score = sem
             /\ sem >= 60 * CENT => mergedScored[i][k].score = sem
             /\ d = 0 => mergedScored[i][k].score = 72 * CENT

C10_Witness ==
  /\ Done(1)
  /\ weights = DefaultConfig
  /\ \E k \in 1..Len(mergedScored[1]) :
       /\ Reported(responses[1][1], k) = 90 * CENT
       /\ Reported(responses[1][2], k) = 0
       /\ tfidfScored[1][k].score > 0
       /\ mergedScored[1][k].score = 72 * CENT

\* C11: for the query summary "login fails on mobile" and a candidate with
\* summary "login fails on mobile app" the summary cosine exceeds 0.8,
\* whatever the other candidates, also when it is the only candidate.
C11_NearIdenticalSummaryAbovePoint8 ==
  \A i \in Invocations :
    (Done(i) /\ Current(i).summary = << "login", "fails", "on", "mobile" >>) =>
      \A k \in 1..Len(all[i]) :
        all[i][k].fields.summary = << "login", "fails", "on", "mobile", "app" >> =>
          tfidfLocals[i].summaryScore[k] > 80 * CENT

\* C12: every issue of the similar list has a score above similarity-threshold.
C12_SimilarAboveSimilarityThreshold ==
  \A i \in Invocations :
    Done(i) =>
      \A k \in 1..Len(similar[i]) :
        similar[i][k].score > ToScore(SIMILARITY_THRESHOLD(weights))

\* C13, in index.js: a candidate with an empty description, the query's being
\* non-empty, has description cosine 0 and lexical score
\* summaryCosine * SUMMARY_WEIGHT.
C13_SummaryWeightKept ==
  \A i \in Invocations :
    (Done(i) /\ Len(tfidfScored[i]) = Len(all[i])
             /\ Current(i).description # << >>) =>
      \A k \in 1..Len(all[i]) :
        all[i][k].fields.description = << >> =>
          /\ tfidfLocals[i].descScore[k] = 0
          /\ tfidfScored[i][k].score * 100 =
               tfidfLocals[i].summaryScore[k] * weights["summary-weightage"]

\* C13: when a candidate's description is empty and the query's is not, the
\* description cosine is 0 and the lexical score is exactly
\* summaryCosine * SUMMARY_WEIGHT, in the TF-IDF-only resolver as well
\* (its weightedCosineScore).
C13_WeightedCosineNotRenormalised ==
  \A i \in Invocations :
    (Done(i) /\ Len(scoredIssues[i]) = Len(all[i])
             /\ issueData[i].fields.description # << >>) =>
      \A k \in 1..Len(all[i]) :
        all[i][k].fields.description = << >> =>
          /\ scoredIssues[i][k].descSimilarity = 0
          /\ scoredIssues[i][k].weightedCosineScore * 100 =
               scoredIssues[i][k].summarySimilarity * weights["summary-weightage"]

\* every weight of the vector is 0 (the empty vector included)
ZeroMagnitude(tf) == \A t \in DOMAIN tf : tf[t] = 0

\* C14: cosineSimilarity returns 0 whenever either vector has zero magnitude,
\* and for every pair of TF-IDF vectors calculateTFIDFCosineSimilarity
\* compares its result is a number, in [0, 1].
C14_CosineFinite ==
  \A i \in Invocations :
    (Done(i) /\ Len(tfidfScored[i]) = Len(all[i])) =>
      \A k \in 1..Len(all[i]) :
        LET loc == tfidfLocals[i]
        IN /\ ~IsNaN(loc.summaryScore[k]) /\ ~IsNaN(loc.descScore[k])
           /\ loc.summaryScore[k] >= 0 /\ loc.summaryScore[k] <= ONE
           /\ loc.descScore[k] >= 0 /\ loc.descScore[k] <= ONE
           /\ (ZeroMagnitude(loc.tfidfSummaries[1])
               \/ ZeroMagnitude(loc.tfidfSummaries[k + 1])) => loc.summaryScore[k] = 0
           /\ (ZeroMagnitude(loc.tfidfDescriptions[1])
               \/ ZeroMagnitude(loc.tfidfDescriptions[k + 1])) => loc.descScore[k] = 0
           /\ ~IsNaN(tfidfScored[i][k].score)

C14_Witness ==
  /\ Done(1)
  /\ Len(tfidfScored[1]) = Len(all[1])
  /\ \E k \in 1..Len(all[1]) :
       LET loc == tfidfLocals[1]
       IN /\ DOMAIN loc.tfidfSummaries[1] # {}
          /\ ZeroMagnitude(loc.tfidfSummaries[1])
          /\ ~ZeroMagnitude(loc.tfidfSummaries[k + 1])
          /\ loc.summaryScore[k] = 0
          /\ DOMAIN loc.tfidfDescriptions[k + 1] = {}
          /\ ~ZeroMagnitude(loc.tfidfDescriptions[1])
          /\ loc.descScore[k] = 0

\* the number of token lists that contain the token
DocumentsWith(tokenLists, t) ==
  Cardinality({d \in 1..Len(tokenLists) : t \in Range(tokenLists[d])})

\* a field's index counts, for every token of every document, the documents
\* that contain it, and the field's TF-IDF weights are not negative
FieldIndexSound(tokenLists, df, count, vectors) ==
  /\ Len(tokenLists) = count
  /\ Len(vectors) = count
  /\ \A d \in 1..count :
       /\ \A t \in Range(tokenLists[d]) :
            /\ t \in DOMAIN df
            /\ df[t] = DocumentsWith(tokenLists, t)
            /\ 1 <= df[t] /\ df[t] <= count
       /\ DOMAIN vectors[d] = Range(tokenLists[d])
       /\ \A t \in DOMAIN vectors[d] : vectors[d][t] >= 0

\* C15: each field's document-frequency index is built over the query plus
\* all candidates, each distinct token counted once per document:
\* totalDocs = candidates + 1 >= 1, 1 <= df[t] <= totalDocs for every token
\* of every document, and every TF-IDF weight is >= 0.
C15_DocumentFrequencyBounds ==
  \A i \in Invocations :
    (Done(i) /\ Len(tfidfScored[i]) = Len(all[i])) =>
      LET loc == tfidfLocals[i]
      IN /\ loc.totalDocs = Len(Candidates(i)) + 1
         /\ loc.totalDocs >= 1
         /\ loc.summaries[1] = tokenize(JiraIssue(jira[i]).fields.summary)
         /\ loc.descriptions[1] = tokenize(JiraIssue(jira[i]).fields.description)
         /\ \A k \in 1..Len(Candidates(i)) :
              /\ loc.summaries[k + 1] = tokenize(Candidates(i)[k].fields.summary)
              /\ loc.descriptions[k + 1] = tokenize(Candidates(i)[k].fields.description)
         /\ FieldIndexSound(loc.summaries, loc.summaryDf, loc.totalDocs, loc.tfidfSummaries)
         /\ FieldIndexSound(loc.descriptions, loc.descDf, loc.totalDocs,
                            loc.tfidfDescriptions)

C15_Witness ==
  /\ Done(1)
  /\ Len(tfidfScored[1]) = Len(all[1])
  /\ LET loc == tfidfLocals[1]
     IN /\ loc.totalDocs = MaxSmallTotal + 1
        /\ \E d \in 1..loc.totalDocs : \E t \in Range(loc.descriptions[d]) :
             /\ Count(loc.descriptions[d], t) = 2
             /\ loc.descDf[t] = 1
             /\ loc.tfidfDescriptions[d][t] > 0
        /\ \E t \in DOMAIN loc.summaryDf :
             loc.summaryDf[t] > 1 /\ loc.summaryDf[t] < loc.totalDocs

\* the number of search requests for a corpus of count issues
Requests(count) ==
  IF count = 0 THEN 1 ELSE (count + PAGE_SIZE - 1) \div PAGE_SIZE

\* C16: against an endpoint with a constant total T the retrieval loop sends
\* exactly max(1, ceil(T / 50)) search requests, with startAt = 0, 50, ...,
\* and the corpus collected holds every returned issue once, in page order.
C16_Pagination ==
  \A i \in Invocations :
    pc[i] # "idle" =>
      LET T == jira[i].total
          sent == Len(searches[i])
          got == Min2(T, sent * PAGE_SIZE)
      IN /\ sent <= Requests(T)
         /\ \A k \in 1..sent : searches[i][k] = (k - 1) * PAGE_SIZE
         /\ Len(all[i]) = got
         /\ \A k \in 1..got : all[i][k] = JiraCorpus(jira[i])[k]
         /\ pc[i] \notin {"start", "search"} =>
              /\ sent = Requests(T)
              /\ startAt[i] = sent * PAGE_SIZE

C16_Witness ==
  /\ pc[1] = "semSummary"
  /\ total[1] = PAGE_SIZE + 1
  /\ searches[1] = << 0, PAGE_SIZE >>
  /\ Len(all[1]) = PAGE_SIZE + 1
  /\ all[1][PAGE_SIZE + 1].key = PAGE_SIZE + 1

\* C17: once every response has arrived, the App shows the current issue and
\* the similar issues of the most recently started fetch.
C17_LatestFetchDisplayed ==
  (calls # << >> /\ \A c \in 1..Len(calls) : calls[c].state = "resolved") =>
    /\ currentIssue = calls[Len(calls)].result.current
    /\ similarIssues = calls[Len(calls)].result.similar

====
